---- MODULE Spec2Model ----
(***************************************************************************)
(* Liveness orchestration engine of FlaskApi:                              *)
(*   app/services/liveness_service.py   (orchestrator)                     *)
(*   app/services/camera_service.py     (capture resource)                 *)
(*   app/services/*_service.py          (the four step executors)          *)
(*   legacy/main.py                     (the legacy command-line pipeline) *)
(*                                                                         *)
(* Real numbers are fixed-point integers: 1.0 is Scale.  The provider      *)
(* outputs enumerated below are chosen so that every division the code     *)
(* performs on them is exact in this representation.                       *)
(***************************************************************************)
EXTENDS Integers, Sequences, FiniteSets, TLC

VARIABLES
    pc,               \* position of the running call
    entry,            \* "none", "service" or "legacy": which pipeline runs
    env,              \* the process environment fixed at construction
    reference,        \* reference_image_data handed to the run
    cs_camera,        \* CameraService.camera: "None", "opened", "unopened"
    camera,           \* local `camera` of the orchestrator: "None" or "cap"
    step_results,     \* local dict step_results
    passed_steps,     \* local passed_steps
    total_confidence, \* local total_confidence
    results,          \* dict `results`, returned to the caller
    calls,            \* history: step executors invoked, in order
    outcome,          \* history: what each step did in this run
    cam_log,          \* history: camera acquisitions and releases
    legacy_result,    \* legacy/main.py: value returned, or "raised"
    probe             \* a single executor or helper run on its own: its
                      \* inputs, position and result ("none" in a pipeline run)

vars == <<pc, entry, env, reference, cs_camera, camera, step_results,
          passed_steps, total_confidence, results, calls, outcome,
          cam_log, legacy_result, probe>>

----------------------------------------------------------------------------
(* Bounds and units *)

\* frames a step obtains within its duration window
MaxFrames == 3

\* fixed-point unit: 1.0
Scale == 144 * 20

\* key not present in a dict
Absent == 0 - 1

StepNames == {"person_verification", "midas_liveness",
              "blink_detection", "mouth_captcha"}

RECURSIVE SumSeq(_)
SumSeq(s) == IF s = <<>> THEN 0 ELSE Head(s) + SumSeq(Tail(s))

\* np.mean of a non-empty list
Mean(s) == SumSeq(s) \div Len(s)

Min(a, b) == IF a < b THEN a ELSE b

BoundedSeq(S, n) == UNION {[1..k -> S] : k \in 0..n}

\* the last n elements of s: collections.deque(maxlen=n) after appends
LastN(s, n) ==
    IF Len(s) <= n THEN s ELSE SubSeq(s, Len(s) - n + 1, Len(s))

----------------------------------------------------------------------------
(* Configuration: LivenessDetectionService.__init__ *)

person_verification_duration == 2
midas_liveness_duration == 5
blink_detection_duration == 4
mouth_captcha_duration == 7
confidence_threshold == (7 * Scale) \div 10

----------------------------------------------------------------------------
(* Step executors.  Each returns the dict the service returns; `message`   *)
(* is kept, the other metrics are dropped.                                 *)

StepDict(success, confidence, message, error) ==
    [success |-> success, confidence |-> confidence,
     message |-> message, error |-> error]

(* PersonVerificationService.verify_person.
   frames: what camera.get_frame() and face_app.get() deliver in the
   duration window; faces = -1 is get_frame() returning None, sim is the
   cosine similarity to the reference embedding. *)
Sims == {0 - 9 * 288, 5 * 288, 6 * 288, Scale}

PersonFrames ==
    {[faces |-> 0 - 1, sim |-> 0], [faces |-> 0, sim |-> 0],
     [faces |-> 2, sim |-> 0]}
    \cup {[faces |-> 1, sim |-> s] : s \in Sims}

SameFace(f) == f.faces = 1

RECURSIVE SimsOf(_)
SimsOf(frames) ==
    IF frames = <<>> THEN <<>>
    ELSE IF SameFace(Head(frames))
         THEN <<Head(frames).sim>> \o SimsOf(Tail(frames))
         ELSE SimsOf(Tail(frames))

similarity_threshold == Scale \div 2

verify_person(model_loaded, has_get_frame, ref_faces, frames) ==
    IF ~model_loaded
    THEN StepDict(FALSE, 0, "InsightFace model not loaded",
                  "Model not available")
    ELSE IF ref_faces # 1
    THEN StepDict(FALSE, 0, "Reference image must contain exactly one face",
                  "Invalid reference image")
    ELSE IF ~has_get_frame
    THEN StepDict(FALSE, 0, "Person verification failed: exception",
                  "AttributeError")
    ELSE LET confidence_scores == SimsOf(frames)
             verified == \E i \in 1..Len(confidence_scores) :
                             confidence_scores[i] > similarity_threshold
             avg_confidence == IF confidence_scores # <<>>
                               THEN Mean(confidence_scores) ELSE 0
         IN StepDict(verified, avg_confidence,
                     "Person verification completed", "None")

(* MidasLivenessService.liveness_decision.  depth_std_face and depth_thresh
   are in tenths, reproj_err in pixels.  cond_motion is True and
   motion_conf is 0.5 in this service. *)
REPROJ_ERR_THRESH == 12

motion_conf == Scale \div 2

liveness_decision(depth_std_face, reproj_err, depth_thresh) ==
    LET cond_depth == depth_std_face > depth_thresh
        cond_pnp == reproj_err < REPROJ_ERR_THRESH
        depth_conf == Min(Scale, (depth_std_face * Scale) \div (depth_thresh * 2))
        pnp_conf == IF reproj_err >= REPROJ_ERR_THRESH THEN 0
                    ELSE Scale - (reproj_err * Scale) \div REPROJ_ERR_THRESH
        total == (depth_conf * 4 + pnp_conf * 3 + motion_conf * 3) \div 10
    IN [is_live |-> (cond_depth /\ cond_pnp) /\ total > confidence_threshold,
        confidence |-> total]

\* adaptive_depth_thresh = 3.0 * (0.8 + 0.4 * (brightness / 128.0)), in tenths
adaptive_depth_thresh(brightness) ==
    (30 * (8 * 128 + 4 * brightness)) \div (10 * 128)

\* reproj_err of a frame in which MediaPipe finds no face
no_face_reproj_err == 1000000000

(* Frames of the depth/pose step: got = FALSE is get_frame() returning None;
   face = FALSE leaves depth_std_face = 0.0 and reproj_err = 1e9. *)
MidasFrames ==
    {[got |-> FALSE, face |-> FALSE, brightness |-> 64, depth_std |-> 0, reproj_err |-> 0],
     [got |-> TRUE, face |-> FALSE, brightness |-> 64, depth_std |-> 0, reproj_err |-> 0],
     [got |-> TRUE, face |-> TRUE, brightness |-> 64, depth_std |-> 60, reproj_err |-> 0],
     [got |-> TRUE, face |-> TRUE, brightness |-> 64, depth_std |-> 60, reproj_err |-> 6],
     [got |-> TRUE, face |-> TRUE, brightness |-> 64, depth_std |-> 30, reproj_err |-> 0]}

FrameDecision(f) ==
    IF f.face
    THEN liveness_decision(f.depth_std, f.reproj_err,
                           adaptive_depth_thresh(f.brightness))
    ELSE liveness_decision(0, no_face_reproj_err,
                           adaptive_depth_thresh(f.brightness))

RECURSIVE Decisions(_)
Decisions(frames) ==
    IF frames = <<>> THEN <<>>
    ELSE IF Head(frames).got
         THEN <<FrameDecision(Head(frames))>> \o Decisions(Tail(frames))
         ELSE Decisions(Tail(frames))

LiveCount(votes) == Cardinality({i \in 1..Len(votes) : votes[i]})

(* MidasLivenessService.run_liveness_check.  torch_global: whether the name
   `torch` used at `with torch.no_grad()` resolves in the module. *)
\* run_liveness_check that passes at a live-vote ratio of exactly 0.6
run_liveness_check_AtLeast(model_loaded, has_get_frame, torch_global, frames, duration) ==
    IF ~model_loaded
    THEN StepDict(FALSE, 0, "MiDaS/MediaPipe models not loaded",
                  "Models not available")
    ELSE IF ~has_get_frame
    THEN StepDict(FALSE, 0, "2D/3D liveness check failed: exception",
                  "AttributeError")
    ELSE LET ds == Decisions(frames)
             live_votes == LastN([i \in 1..Len(ds) |-> ds[i].is_live],
                                 duration * 30)
             confidence_scores == [i \in 1..Len(ds) |-> ds[i].confidence]
         IN IF ds # <<>> /\ ~torch_global
            THEN StepDict(FALSE, 0, "2D/3D liveness check failed: exception",
                          "NameError")
            ELSE IF Len(live_votes) = 0
            THEN StepDict(FALSE, 0, "2D/3D liveness check failed: exception",
                          "ZeroDivisionError")
            ELSE LET final_live ==
                         LiveCount(live_votes) * 10 >= 6 * Len(live_votes)
                 IN StepDict(final_live, Mean(confidence_scores),
                             IF final_live
                             THEN "2D/3D liveness check completed successfully"
                             ELSE "2D/3D liveness check failed",
                             "None")

run_liveness_check(model_loaded, has_get_frame, torch_global, frames, duration) ==
    IF ~model_loaded
    THEN StepDict(FALSE, 0, "MiDaS/MediaPipe models not loaded",
                  "Models not available")
    ELSE IF ~has_get_frame
    THEN StepDict(FALSE, 0, "2D/3D liveness check failed: exception",
                  "AttributeError")
    ELSE LET ds == Decisions(frames)
             live_votes == LastN([i \in 1..Len(ds) |-> ds[i].is_live],
                                 duration * 30)
             confidence_scores == [i \in 1..Len(ds) |-> ds[i].confidence]
         IN IF ds # <<>> /\ ~torch_global
            THEN StepDict(FALSE, 0, "2D/3D liveness check failed: exception",
                          "NameError")
            ELSE IF Len(live_votes) = 0
            THEN StepDict(FALSE, 0, "2D/3D liveness check failed: exception",
                          "ZeroDivisionError")
            ELSE LET final_live ==
                         LiveCount(live_votes) * 10 > 6 * Len(live_votes)
                 IN StepDict(final_live, Mean(confidence_scores),
                             IF final_live
                             THEN "2D/3D liveness check completed successfully"
                             ELSE "2D/3D liveness check failed",
                             "None")

(* BlinkDetectionService.detect_blinks.  ear in hundredths, gaze in tenths;
   face = FALSE is a frame in which dlib finds no face. *)
EYE_AR_THRESH == 22
EYE_AR_CONSEC_FRAMES == 2

BlinkFrames ==
    {[got |-> FALSE, face |-> FALSE, ear |-> 0, gaze |-> 0],
     [got |-> TRUE, face |-> FALSE, ear |-> 0, gaze |-> 0]}
    \cup {[got |-> TRUE, face |-> TRUE, ear |-> e, gaze |-> g] :
              e \in {18, 30}, g \in {10, 20}}

RECURSIVE BlinkLoop(_, _)
BlinkLoop(frames, st) ==
    IF frames = <<>> THEN st
    ELSE LET f == Head(frames)
         IN IF ~(f.got /\ f.face) THEN BlinkLoop(Tail(frames), st)
            ELSE BlinkLoop(Tail(frames),
                   [counter |-> IF f.ear < EYE_AR_THRESH
                                THEN st.counter + 1 ELSE 0,
                    total_blinks |->
                        IF f.ear >= EYE_AR_THRESH
                           /\ st.counter >= EYE_AR_CONSEC_FRAMES
                        THEN st.total_blinks + 1 ELSE st.total_blinks,
                    gaze_movements |->
                        IF f.gaze <= 8 \/ f.gaze >= 15
                        THEN st.gaze_movements + 1 ELSE st.gaze_movements])

detect_blinks(model_loaded, has_get_frame, frames) ==
    IF ~model_loaded
    THEN StepDict(FALSE, 0, "Blink detection models not loaded",
                  "Models not available")
    ELSE IF ~has_get_frame
    THEN StepDict(FALSE, 0, "Blink detection failed: exception",
                  "AttributeError")
    ELSE LET st == BlinkLoop(frames, [counter |-> 0, total_blinks |-> 0,
                                      gaze_movements |-> 0])
             blink_score == Min(Scale, (st.total_blinks * Scale) \div 2)
             gaze_score == Min(Scale, (st.gaze_movements * Scale) \div 3)
             success == st.total_blinks >= 1 /\ st.gaze_movements >= 2
         IN StepDict(success, (blink_score + gaze_score) \div 2,
                     IF success
                     THEN "Blink detection completed successfully"
                     ELSE "Insufficient blink/gaze activity detected",
                     "None")

(* MouthCaptchaService.run_captcha_verification, the decision at the end of
   the window.  avg_mar_change in thousandths; recognized_number and
   captcha_answer are strings, "None" when no number was recognised. *)
MarValues == {0, 10, 15, 20, 30}
Recognized == {"None", "27", "31"}
Answers == {"27"}

\* run_captcha_verification that accepts a MAR variation of exactly 0.01
run_captcha_verification_AtLeast(model_loaded, has_get_frame, avg_mar_change, recognized_number, captcha_answer) ==
    IF ~model_loaded
    THEN StepDict(FALSE, 0, "Mouth captcha models not loaded",
                  "Models not available")
    ELSE IF ~has_get_frame
    THEN StepDict(FALSE, 0, "Mouth captcha verification failed: exception",
                  "AttributeError")
    ELSE LET mar_score == Min(Scale, (avg_mar_change * Scale) \div 20)
             answer_score == IF recognized_number = captcha_answer
                             THEN Scale ELSE 0
             success == avg_mar_change >= 10
                        /\ recognized_number = captcha_answer
         IN StepDict(success, (mar_score + answer_score) \div 2,
                     IF success
                     THEN "Voice captcha verification completed successfully"
                     ELSE "Voice captcha verification failed",
                     "None")

run_captcha_verification(model_loaded, has_get_frame, avg_mar_change, recognized_number, captcha_answer) ==
    IF ~model_loaded
    THEN StepDict(FALSE, 0, "Mouth captcha models not loaded",
                  "Models not available")
    ELSE IF ~has_get_frame
    THEN StepDict(FALSE, 0, "Mouth captcha verification failed: exception",
                  "AttributeError")
    ELSE LET mar_score == Min(Scale, (avg_mar_change * Scale) \div 20)
             answer_score == IF recognized_number = captcha_answer
                             THEN Scale ELSE 0
             success == avg_mar_change > 10
                        /\ recognized_number = captcha_answer
         IN StepDict(success, (mar_score + answer_score) \div 2,
                     IF success
                     THEN "Voice captcha verification completed successfully"
                     ELSE "Voice captcha verification failed",
                     "None")

----------------------------------------------------------------------------
(* CameraService *)

(* CameraService.get_camera.  device is what cv2.VideoCapture(source) does:
   "opens", "fails" (object built, isOpened() false) or "raises". *)
get_camera(cs, device) ==
    IF cs = "None" \/ cs = "unopened"
    THEN IF device = "raises"
         THEN [camera |-> cs, ret |-> "None", log |-> <<"get_camera">>]
         ELSE IF device = "fails"
         THEN [camera |-> "unopened", ret |-> "None",
               log |-> <<"get_camera">>]
         ELSE [camera |-> "opened", ret |-> "cap",
               log |-> <<"get_camera", "open">>]
    ELSE [camera |-> cs, ret |-> "cap", log |-> <<"get_camera">>]

\* release_camera that forgets the device: drops the handle without release()
release_camera_Forget(cs) ==
    [camera |-> "None", log |-> <<"release_camera">>]

(* CameraService.release_camera *)
release_camera(cs) ==
    IF cs # "None"
    THEN [camera |-> "None",
          log |-> IF cs = "opened" THEN <<"release_camera", "close">>
                  ELSE <<"release_camera">>]
    ELSE [camera |-> cs, log |-> <<"release_camera">>]

----------------------------------------------------------------------------
(* LivenessDetectionService.run_complete_liveness_detection *)

NoEntry == [present |-> FALSE, passed |-> FALSE, confidence |-> 0,
            message |-> "", error |-> ""]

NoSteps == [s \in StepNames |-> NoEntry]

\* results = {'success': False, 'is_live': False, 'confidence': 0.0, ...}
InitialResults ==
    [success |-> FALSE, is_live |-> FALSE, confidence |-> 0,
     steps |-> NoSteps, error |-> "None", passed_steps |-> Absent,
     message |-> "None"]

\* step_results[name] = {'passed': ..., 'confidence': ..., 'message': ...}
Entry(r) == [present |-> TRUE, passed |-> r.success,
             confidence |-> r.confidence, message |-> r.message,
             error |-> ""]

\* step_results[name] written by the `except Exception as e` of a step
RaisedEntry(e) == [present |-> TRUE, passed |-> FALSE, confidence |-> 0,
                   message |-> "", error |-> e]

\* a skipped step recorded without confidence
SkippedEntry_NoConfidence ==
    [present |-> TRUE, passed |-> TRUE, confidence |-> 0,
     message |-> "Skipped - no reference image provided", error |-> ""]

\* step_results['person_verification'] when no reference image is given
SkippedEntry == [present |-> TRUE, passed |-> TRUE, confidence |-> Scale,
                 message |-> "Skipped - no reference image provided",
                 error |-> ""]

\* results['error'] set before `return results` when a step did not pass
FailureError(name) ==
    CASE name = "person_verification" -> "Person verification failed"
      [] name = "midas_liveness" -> "2D/3D liveness check failed"
      [] name = "blink_detection" -> "Blink detection failed"
      [] name = "mouth_captcha" -> "Voice captcha verification failed"

\* the blink step placed before the depth/pose step
NextStep_Swapped(name) ==
    CASE name = "person_verification" -> "blink_detection"
      [] name = "blink_detection" -> "midas_liveness"
      [] name = "midas_liveness" -> "mouth_captcha"
      [] name = "mouth_captcha" -> "final"

\* the statement sequence of the try body: where control goes after a step
NextStep(name) ==
    CASE name = "person_verification" -> "midas_liveness"
      [] name = "midas_liveness" -> "blink_detection"
      [] name = "blink_detection" -> "mouth_captcha"
      [] name = "mouth_captcha" -> "final"

\* a failed step that only records its error and goes on
OnStepFailed_Continue(name) == NextStep(name)

\* `return results` in the else branch of `if <step>_result['success']`
OnStepFailed(name) == "finally"

\* the per-step `except Exception` handler falls through to the next step
OnStepRaised(name) == NextStep(name)

\* the camera check left out
AfterGetCamera_NoCheck(ret) == "person_verification"

\* `if not camera: raise RuntimeError(...)`, caught by the outer except
AfterGetCamera(ret) == IF ret = "None" THEN "finally" ELSE "person_verification"

\* final_confidence = total_confidence / passed_steps if passed_steps > 0 else 0.0
FinalConfidence(total, passed) == IF passed > 0 THEN total \div passed ELSE 0

\* is_live demanding all four steps
IsLive_AllFour(passed, final_confidence) ==
    passed >= 4 /\ final_confidence >= confidence_threshold

\* is_live = passed_steps >= 3 and final_confidence >= confidence_threshold
IsLive(passed, final_confidence) ==
    passed >= 3 /\ final_confidence >= confidence_threshold

(* What the service objects are after __init__ and what the process offers:
   *_loaded are the model_loaded flags set by the _load_model(s) methods;
   has_get_frame is whether the object cv2.VideoCapture(...) returns has a
   get_frame() method (OpenCV's own capture class has read() only, a
   substituted capture class as in legacy/midas_wrapper.py may have it);
   torch_global is whether `torch` is bound in the globals of
   midas_liveness_service (the source binds it only inside _load_models). *)
Environments ==
    [pv_loaded : BOOLEAN, midas_loaded : BOOLEAN, blink_loaded : BOOLEAN,
     captcha_loaded : BOOLEAN, has_get_frame : BOOLEAN,
     torch_global : BOOLEAN]

Init ==
    /\ pc = "idle"
    /\ entry = "none"
    /\ env \in Environments
    /\ reference = "none"
    /\ cs_camera = "None"
    /\ camera = "None"
    /\ step_results = NoSteps
    /\ passed_steps = 0
    /\ total_confidence = 0
    /\ results = InitialResults
    /\ calls = <<>>
    /\ outcome = [s \in StepNames |-> "not_run"]
    /\ cam_log = <<>>
    /\ legacy_result = "none"
    /\ probe = "none"

\* entry of run_complete_liveness_detection up to the person step
Start ==
    /\ pc = "idle"
    /\ \E ref \in {"none", "valid", "undecodable"},
          device \in {"opens", "fails", "raises"} :
         LET g == get_camera(cs_camera, device)
         IN /\ entry' = "service"
            /\ reference' = ref
            /\ cs_camera' = g.camera
            /\ camera' = g.ret
            /\ cam_log' = cam_log \o g.log
            /\ pc' = AfterGetCamera(g.ret)
            /\ results' = IF g.ret = "None"
                          THEN [InitialResults EXCEPT
                                    !.error = "Camera not available"]
                          ELSE InitialResults
    /\ step_results' = NoSteps
    /\ passed_steps' = 0
    /\ total_confidence' = 0
    /\ UNCHANGED probe
    /\ UNCHANGED <<env, calls, outcome, legacy_result>>

\* a step executor was called and returned the dict r
StepReturned(name, r) ==
    /\ calls' = Append(calls, name)
    /\ step_results' = [step_results EXCEPT ![name] = Entry(r)]
    /\ IF r.success
       THEN /\ passed_steps' = passed_steps + 1
            /\ total_confidence' = total_confidence + r.confidence
            /\ outcome' = [outcome EXCEPT ![name] = "passed"]
            /\ pc' = NextStep(name)
            /\ UNCHANGED results
       ELSE /\ outcome' = [outcome EXCEPT ![name] = "failed"]
            /\ results' = [results EXCEPT !.error = FailureError(name)]
            /\ pc' = OnStepFailed(name)
            /\ UNCHANGED <<passed_steps, total_confidence>>
    /\ UNCHANGED probe
    /\ UNCHANGED <<entry, env, reference, cs_camera, camera, cam_log,
                   legacy_result>>

\* Step 1, no reference image: the else branch
PersonSkipped ==
    /\ entry = "service"
    /\ pc = "person_verification"
    /\ reference = "none"
    /\ step_results' = [step_results EXCEPT
                            !["person_verification"] = SkippedEntry]
    /\ passed_steps' = passed_steps + 1
    /\ total_confidence' = total_confidence + SkippedEntry.confidence
    /\ outcome' = [outcome EXCEPT !["person_verification"] = "skipped"]
    /\ pc' = NextStep("person_verification")
    /\ UNCHANGED probe
    /\ UNCHANGED <<entry, env, reference, cs_camera, camera, results, calls,
                   cam_log, legacy_result>>

\* Step 1, decode_image_from_base64 raises ValueError
PersonDecodeError ==
    /\ entry = "service"
    /\ pc = "person_verification"
    /\ reference = "undecodable"
    /\ step_results' = [step_results EXCEPT !["person_verification"] =
                            RaisedEntry("Image decoding failed")]
    /\ outcome' = [outcome EXCEPT !["person_verification"] = "raised"]
    /\ pc' = OnStepRaised("person_verification")
    /\ UNCHANGED probe
    /\ UNCHANGED <<entry, env, reference, cs_camera, camera, results, calls,
                   passed_steps, total_confidence, cam_log, legacy_result>>

\* Step 1, reference image decoded and verify_person called
PersonVerification ==
    /\ entry = "service"
    /\ pc = "person_verification"
    /\ reference = "valid"
    /\ \E ref_faces \in 0..2, frames \in BoundedSeq(PersonFrames, MaxFrames) :
         StepReturned("person_verification",
                      verify_person(env.pv_loaded, env.has_get_frame,
                                    ref_faces, frames))

\* Step 2
MidasLiveness ==
    /\ entry = "service"
    /\ pc = "midas_liveness"
    /\ \E frames \in BoundedSeq(MidasFrames, MaxFrames) :
         StepReturned("midas_liveness",
                      run_liveness_check(env.midas_loaded, env.has_get_frame,
                                         env.torch_global, frames,
                                         midas_liveness_duration))

\* Step 3
BlinkDetection ==
    /\ entry = "service"
    /\ pc = "blink_detection"
    /\ \E frames \in BoundedSeq(BlinkFrames, MaxFrames) :
         StepReturned("blink_detection",
                      detect_blinks(env.blink_loaded, env.has_get_frame,
                                    frames))

\* Step 4
MouthCaptcha ==
    /\ entry = "service"
    /\ pc = "mouth_captcha"
    /\ \E m \in MarValues, n \in Recognized, a \in Answers :
         StepReturned("mouth_captcha",
                      run_captcha_verification(env.captcha_loaded,
                                               env.has_get_frame, m, n, a))

\* "Calculate final results" and `return results`
Finalize ==
    /\ entry = "service"
    /\ pc = "final"
    /\ LET final_confidence == FinalConfidence(total_confidence, passed_steps)
           is_live == IsLive(passed_steps, final_confidence)
       IN results' = [results EXCEPT
              !.success = TRUE,
              !.is_live = is_live,
              !.confidence = final_confidence,
              !.steps = step_results,
              !.passed_steps = passed_steps,
              !.message = IF is_live
                          THEN "Liveness detection completed successfully"
                          ELSE "Liveness detection failed"]
    /\ pc' = "finally"
    /\ UNCHANGED probe
    /\ UNCHANGED <<entry, env, reference, cs_camera, camera, step_results,
                   passed_steps, total_confidence, calls, outcome, cam_log,
                   legacy_result>>

\* the finally clause, then the return to the caller
Finally ==
    /\ entry = "service"
    /\ pc = "finally"
    /\ LET r == release_camera(cs_camera)
       IN /\ cs_camera' = r.camera
          /\ cam_log' = cam_log \o r.log
    /\ pc' = "returned"
    /\ UNCHANGED probe
    /\ UNCHANGED <<entry, env, reference, camera, step_results, passed_steps,
                   total_confidence, results, calls, outcome, legacy_result>>

----------------------------------------------------------------------------
(* legacy/main.py run_liveness_detection: each step function returns a
   truth value or raises; there is no except clause, only the finally. *)

\* what the legacy step functions can do
LegacyOutcomes(name) ==
    CASE name = "person_verification" -> {"True", "False", "raise"}
      [] name = "midas_liveness" -> {"True", "False"}
      [] name = "blink_detection" -> {"True", "False"}
      [] name = "mouth_captcha" -> {"True", "False", "raise"}

\* the statement sequence of run_liveness_detection
LegacyNext(name) ==
    CASE name = "person_verification" -> "midas_liveness"
      [] name = "midas_liveness" -> "blink_detection"
      [] name = "blink_detection" -> "mouth_captcha"
      [] name = "mouth_captcha" -> "finally"

\* `if not <step>_result: ... return False`
LegacyOnFalse(name) == "finally"

LegacyStart ==
    /\ pc = "idle"
    /\ entry' = "legacy"
    /\ pc' = "person_verification"
    /\ cam_log' = cam_log \o <<"legacy_camera">>
    /\ UNCHANGED probe
    /\ UNCHANGED <<env, reference, cs_camera, camera, step_results,
                   passed_steps, total_confidence, results, calls, outcome,
                   legacy_result>>

LegacyStep ==
    /\ entry = "legacy"
    /\ pc \in StepNames
    /\ \E o \in LegacyOutcomes(pc) :
         /\ calls' = Append(calls, pc)
         /\ outcome' = [outcome EXCEPT ![pc] =
                            CASE o = "True" -> "passed"
                              [] o = "False" -> "failed"
                              [] o = "raise" -> "raised"]
         /\ pc' = CASE o = "True" -> LegacyNext(pc)
                    [] o = "False" -> LegacyOnFalse(pc)
                    [] o = "raise" -> "finally"
         /\ legacy_result' =
                CASE o = "True" -> IF LegacyNext(pc) = "finally"
                                   THEN "True" ELSE legacy_result
                  [] o = "False" -> "False"
                  [] o = "raise" -> "raised"
    /\ UNCHANGED probe
    /\ UNCHANGED <<entry, env, reference, cs_camera, camera, step_results,
                   passed_steps, total_confidence, results, cam_log>>

\* finally: cam.release()
LegacyFinally ==
    /\ entry = "legacy"
    /\ pc = "finally"
    /\ cam_log' = cam_log \o <<"legacy_release">>
    /\ pc' = "returned"
    /\ UNCHANGED probe
    /\ UNCHANGED <<entry, env, reference, cs_camera, camera, step_results,
                   passed_steps, total_confidence, results, calls, outcome,
                   legacy_result>>

Next ==
    \/ Start
    \/ PersonSkipped
    \/ PersonDecodeError
    \/ PersonVerification
    \/ MidasLiveness
    \/ BlinkDetection
    \/ MouthCaptcha
    \/ Finalize
    \/ Finally
    \/ LegacyStart
    \/ LegacyStep
    \/ LegacyFinally

Spec == Init /\ [][Next]_vars

----------------------------------------------------------------------------
(* Properties *)

Count(log, x) == Cardinality({i \in 1..Len(log) : log[i] = x})

Rank(name) ==
    CASE name = "person_verification" -> 1
      [] name = "midas_liveness" -> 2
      [] name = "blink_detection" -> 3
      [] name = "mouth_captcha" -> 4

Returned == entry = "service" /\ pc = "returned"

\* steps recorded as passed in this run, skipped person verification included
PassedNames == {s \in StepNames : step_results[s].present /\ step_results[s].passed}

ConfIfPassed(s) == IF s \in PassedNames THEN step_results[s].confidence ELSE 0

PassedSum == ConfIfPassed("person_verification") + ConfIfPassed("midas_liveness")
             + ConfIfPassed("blink_detection") + ConfIfPassed("mouth_captcha")

NPassed == Cardinality(PassedNames)

\* mean of the passed steps' confidences >= 0.7, without dividing
MeanPassedAtLeastThreshold == PassedSum * 10 >= 7 * Scale * NPassed

SomeStepFailed == \E s \in StepNames : outcome[s] = "failed"

SomeStepRaised == \E s \in StepNames : outcome[s] = "raised"

LaterStepsNotRun(s) ==
    \A t \in StepNames :
        Rank(t) > Rank(s) => outcome[t] = "not_run" /\ Count(calls, t) = 0

(* C1 (as stated): every returned result has is_live true exactly when at
   least 3 steps passed and the mean confidence of the passed steps is at
   least 0.7. *)
C1_Original ==
    Returned /\ camera = "cap" =>
        (results.is_live <=> (NPassed >= 3 /\ MeanPassedAtLeastThreshold))

(* C1 (amended): a result produced by the final calculation (camera acquired,
   no step returned a failure) has passed_steps and confidence equal to the
   count and the mean of the passed steps, and is_live true exactly when
   passed_steps >= 3 and that mean >= 0.7; every other returned result has
   is_live false and confidence 0.0. *)
C1_IsLiveIff ==
    Returned =>
        IF camera = "cap" /\ ~SomeStepFailed
        THEN /\ results.passed_steps = NPassed
             /\ NPassed > 0 => results.confidence * NPassed = PassedSum
             /\ NPassed = 0 => results.confidence = 0
             /\ results.is_live <=> (NPassed >= 3 /\ MeanPassedAtLeastThreshold)
        ELSE ~results.is_live /\ results.confidence = 0

C1_Witness == Returned /\ results.is_live /\ outcome["person_verification"] = "raised"

(* C2: a step that returned success = false is the last step executor invoked
   in its run, in the service and in legacy/main.py. *)
C2_FailFast ==
    \A i \in 1..Len(calls) : outcome[calls[i]] = "failed" => i = Len(calls)

C2_Witness ==
    Returned /\ outcome["midas_liveness"] = "failed"
    /\ outcome["blink_detection"] = "not_run"

(* C3 (as stated): a run aborted by a failed step returns success = true,
   is_live = false and error set to the failing step's reason. *)
C3_Original ==
    \A s \in StepNames :
        Returned /\ outcome[s] = "failed" =>
            /\ results.success
            /\ ~results.is_live
            /\ results.error \in {step_results[s].message, FailureError(s)}

(* C4: in a run of run_complete_liveness_detection get_camera is called at
   most once and opens the device at most once, nothing is released before
   the run ends, and when it has returned release_camera has been called
   exactly once, every opened device has been closed and the service holds
   no camera. *)
C4_CameraOnce ==
    entry = "service" =>
        /\ Count(cam_log, "get_camera") <= 1
        /\ Count(cam_log, "open") <= 1
        /\ pc # "returned" => Count(cam_log, "release_camera") = 0
        /\ pc = "returned" =>
               /\ Count(cam_log, "release_camera") = 1
               /\ Count(cam_log, "close") = Count(cam_log, "open")
               /\ cs_camera = "None"

C4_Witness ==
    Returned /\ outcome["person_verification"] = "raised"
    /\ Count(cam_log, "open") = 1 /\ Count(cam_log, "close") = 1

(* C5 (as stated): when an exception is raised while a step is being run,
   the run ends with the camera released, no later step run and
   is_live = false. *)
C5_Original ==
    \A s \in StepNames :
        Returned /\ outcome[s] = "raised" =>
            /\ cs_camera = "None"
            /\ LaterStepsNotRun(s)
            /\ ~results.is_live

(* C6 (as stated): with a reference image, any failure of person
   verification (undecodable reference, reference face count not one, model
   not ready, no match) aborts the run with an error, and the depth/pose,
   blink and voice steps are not run. *)
C6_Original ==
    Returned /\ camera = "cap" /\ reference # "none"
    /\ outcome["person_verification"] \in {"failed", "raised"} =>
        /\ LaterStepsNotRun("person_verification")
        /\ results.error # "None"
        /\ ~results.is_live

(* C7: when the camera cannot be acquired the run goes straight to its end:
   no step executor is invoked, and the returned result has a non-empty
   error and is_live = false. *)
C7_NoCamera ==
    entry = "service" /\ camera = "None" =>
        /\ pc \in {"finally", "returned"}
        /\ calls = <<>>
        /\ \A s \in StepNames : outcome[s] = "not_run"
        /\ results.error = "Camera not available"
        /\ ~results.is_live /\ ~results.success

C7_Witness == Returned /\ camera = "None" /\ cs_camera = "None"
              /\ Count(cam_log, "get_camera") = 1

(* C8: the step executors are invoked in the order person verification,
   depth/pose, blink/gaze, voice captcha, each at most once per run. *)
C8_FixedOrder ==
    \A i, j \in 1..Len(calls) : i < j => Rank(calls[i]) < Rank(calls[j])

C8_Witness == Returned /\ Len(calls) = 4

(* C9 (as stated): every confidence of every step result and of the returned
   result lies in [0, 1]. *)
C9_Original ==
    /\ \A s \in StepNames :
           step_results[s].confidence >= 0 /\ step_results[s].confidence <= Scale
    /\ results.confidence >= 0 /\ results.confidence <= Scale

ExecutedPassed ==
    {s \in StepNames \ {"person_verification"} : outcome[s] = "passed"}

(* C10: without a reference image verify_person is never called, person
   verification is recorded as passed with confidence 1.0, and it counts as
   one passed step and adds 1.0 to the confidence total from which the mean
   is taken. *)
C10_Skipped ==
    entry = "service" /\ reference = "none" /\ camera = "cap"
    /\ pc \notin {"idle", "person_verification"} =>
        /\ Count(calls, "person_verification") = 0
        /\ step_results["person_verification"].present
        /\ step_results["person_verification"].passed
        /\ step_results["person_verification"].confidence = Scale
        /\ passed_steps = 1 + Cardinality(ExecutedPassed)
        /\ total_confidence =
               Scale + PassedSum - ConfIfPassed("person_verification")
        /\ results.success =>
               /\ results.passed_steps = passed_steps
               /\ results.confidence * passed_steps = total_confidence
               /\ results.steps["person_verification"].passed
               /\ results.steps["person_verification"].confidence = Scale

C10_Witness ==
    Returned /\ reference = "none" /\ results.success
    /\ results.passed_steps = 4

----------------------------------------------------------------------------
(* Single executors and helpers run on their own.  The pipeline variables
   stay as they are before a run; probe holds the inputs, the position and
   the result. *)

pvars == <<pc, entry, env, reference, cs_camera, camera, step_results,
           passed_steps, total_confidence, results, calls, outcome,
           cam_log, legacy_result>>

FullEnvironment ==
    [pv_loaded |-> TRUE, midas_loaded |-> TRUE, blink_loaded |-> TRUE,
     captcha_loaded |-> TRUE, has_get_frame |-> TRUE, torch_global |-> TRUE]

PipelineIdle ==
    /\ pc = "idle"
    /\ entry = "none"
    /\ env = FullEnvironment
    /\ reference = "none"
    /\ cs_camera = "None"
    /\ camera = "None"
    /\ step_results = NoSteps
    /\ passed_steps = 0
    /\ total_confidence = 0
    /\ results = InitialResults
    /\ calls = <<>>
    /\ outcome = [s \in StepNames |-> "not_run"]
    /\ cam_log = <<>>
    /\ legacy_result = "none"

Truth(b) == IF b THEN "True" ELSE "False"

(* The frame loop of PersonVerificationService.verify_person with display
   off: pulled counts the camera.get_frame() calls, frame_count the frames
   that were not None.  The loop has no exit but the end of the window. *)
RECURSIVE verify_person_loop(_, _)
verify_person_loop(frames, st) ==
    IF frames = <<>> THEN st
    ELSE LET f == Head(frames)
             st1 == [st EXCEPT !.pulled = @ + 1]
         IN IF f.faces = 0 - 1
            THEN verify_person_loop(Tail(frames), st1)
            ELSE IF f.faces # 1
            THEN verify_person_loop(Tail(frames),
                     [st1 EXCEPT !.frame_count = @ + 1])
            ELSE verify_person_loop(Tail(frames),
                     [st1 EXCEPT !.frame_count = @ + 1,
                                 !.verified = @ \/ f.sim > similarity_threshold])

(* legacy/person_check.py PersonVerificationAndMonitor.run with display off:
   a frame that is None raises at frame.copy(); a wrong face count or a
   non-match returns False at once. *)
RECURSIVE legacy_person_run(_, _)
legacy_person_run(frames, st) ==
    IF frames = <<>> THEN [st EXCEPT !.result = Truth(st.verified)]
    ELSE LET f == Head(frames)
             st1 == [st EXCEPT !.pulled = @ + 1]
         IN IF f.faces = 0 - 1 THEN [st1 EXCEPT !.result = "raised"]
            ELSE IF f.faces # 1 THEN [st1 EXCEPT !.result = "False"]
            ELSE IF f.sim > similarity_threshold
            THEN legacy_person_run(Tail(frames), [st1 EXCEPT !.verified = TRUE])
            ELSE [st1 EXCEPT !.result = "False"]

PersonLoopStart ==
    [verified |-> FALSE, frame_count |-> 0, pulled |-> 0, result |-> "none"]

InitPerson ==
    /\ PipelineIdle
    /\ \E frames \in BoundedSeq(PersonFrames, MaxFrames) :
         probe = [kind |-> "person", phase |-> "input", frames |-> frames,
                  result |-> "none", confidence |-> 0, pulled |-> 0]

\* verify_person with the model loaded and a one-face reference image
PersonProbeService ==
    /\ probe.phase = "input"
    /\ LET r == verify_person(TRUE, TRUE, 1, probe.frames)
           l == verify_person_loop(probe.frames, PersonLoopStart)
       IN probe' = [probe EXCEPT !.phase = "service",
                                 !.result = Truth(r.success),
                                 !.confidence = r.confidence,
                                 !.pulled = l.pulled]
    /\ UNCHANGED pvars

\* PersonVerificationAndMonitor.run
PersonProbeLegacy ==
    /\ probe.phase = "input"
    /\ LET l == legacy_person_run(probe.frames, PersonLoopStart)
       IN probe' = [probe EXCEPT !.phase = "legacy",
                                 !.result = l.result,
                                 !.pulled = l.pulled]
    /\ UNCHANGED pvars

NextPerson == PersonProbeService \/ PersonProbeLegacy

SpecPerson == InitPerson /\ [][NextPerson]_vars

WrongCount(f) == f.faces = 0 \/ f.faces = 2

NonMatch(f) == f.faces = 1 /\ f.sim <= similarity_threshold

Matched(f) == f.faces = 1 /\ f.sim > similarity_threshold

\* index of the first frame of the window with 0 or at least 2 faces, else 0
FirstWrongCount(frames) ==
    IF \E i \in 1..Len(frames) : WrongCount(frames[i])
    THEN CHOOSE i \in 1..Len(frames) :
             /\ WrongCount(frames[i])
             /\ \A j \in 1..(i - 1) : ~WrongCount(frames[j])
    ELSE 0

(* C11 (as stated): when a frame of the window has 0 or at least 2 faces,
   person verification fails and pulls no frame after the first such frame. *)
C11_Original ==
    probe.phase \in {"service", "legacy"}
    /\ FirstWrongCount(probe.frames) > 0 =>
        /\ probe.result # "True"
        /\ probe.pulled <= FirstWrongCount(probe.frames)

(* C12 (as stated): person verification that returns passes exactly when some
   sampled frame matched and no sampled frame was a non-match or had a wrong
   face count. *)
C12_Original ==
    probe.phase \in {"service", "legacy"} /\ probe.result # "raised" =>
        (probe.result = "True" <=>
            /\ \E i \in 1..Len(probe.frames) : Matched(probe.frames[i])
            /\ \A i \in 1..Len(probe.frames) :
                   ~NonMatch(probe.frames[i]) /\ ~WrongCount(probe.frames[i]))

----------------------------------------------------------------------------
(* Blink counting on its own: the frame loop of detect_blinks and of
   legacy/blink.py blink over one window. *)

MaxBlinkFrames == 4

\* the window's frames, with an eye aspect ratio exactly at the threshold too
BlinkProbeFrames ==
    BlinkFrames \cup {[got |-> TRUE, face |-> TRUE, ear |-> EYE_AR_THRESH, gaze |-> 10]}

BlinkLoopStart == [counter |-> 0, total_blinks |-> 0, gaze_movements |-> 0]

\* total_blinks when the loop has left the window
BlinkCount_OpenRun(frames) ==
    LET st == BlinkLoop(frames, BlinkLoopStart)
    IN st.total_blinks + (IF st.counter >= EYE_AR_CONSEC_FRAMES THEN 1 ELSE 0)

BlinkCount(frames) == BlinkLoop(frames, BlinkLoopStart).total_blinks

InitBlink ==
    /\ PipelineIdle
    /\ \E frames \in BoundedSeq(BlinkProbeFrames, MaxBlinkFrames) :
         probe = [kind |-> "blink", phase |-> "input", frames |-> frames,
                  total_blinks |-> 0]

\* BlinkDetectionService.detect_blinks, lines 129-164
BlinkProbeService ==
    /\ probe.phase = "input"
    /\ probe' = [probe EXCEPT !.phase = "service",
                              !.total_blinks = BlinkCount(probe.frames)]
    /\ UNCHANGED pvars

\* legacy/blink.py blink, lines 81-114: the same counter
BlinkProbeLegacy ==
    /\ probe.phase = "input"
    /\ probe' = [probe EXCEPT !.phase = "legacy",
                              !.total_blinks = BlinkCount(probe.frames)]
    /\ UNCHANGED pvars

NextBlink == BlinkProbeService \/ BlinkProbeLegacy

SpecBlink == InitBlink /\ [][NextBlink]_vars

\* the eye aspect ratios measured in a window, in frame order
RECURSIVE Ears(_)
Ears(frames) ==
    IF frames = <<>> THEN <<>>
    ELSE IF Head(frames).got /\ Head(frames).face
         THEN <<Head(frames).ear>> \o Ears(Tail(frames))
         ELSE Ears(Tail(frames))

\* maximal runs a..b of closed-eye measurements of length at least 2 that are
\* followed by an open-eye measurement
ClosedRuns(e) ==
    {ab \in (1..Len(e)) \X (1..Len(e)) :
        /\ ab[1] < ab[2]
        /\ \A i \in ab[1]..ab[2] : e[i] < EYE_AR_THRESH
        /\ ab[1] = 1 \/ e[ab[1] - 1] >= EYE_AR_THRESH
        /\ ab[2] < Len(e)
        /\ e[ab[2] + 1] >= EYE_AR_THRESH}

(* C13: the blink count is the number of maximal runs of at least 2
   consecutive measurements with EAR < 0.22 that are followed by a
   measurement with EAR >= 0.22; a run of 1 and a run still open at the end
   of the window count nothing. *)
C13_BlinkCount ==
    probe.phase \in {"service", "legacy"} =>
        probe.total_blinks = Cardinality(ClosedRuns(Ears(probe.frames)))

C13_Witness ==
    /\ probe.phase = "service"
    /\ Ears(probe.frames) = <<30, 18, 18, 30>>
    /\ probe.total_blinks = 1

----------------------------------------------------------------------------
(* The voice captcha on its own.  Strings are sequences of characters, so
   that str(), int(), isdigit() and split() are computed as Python computes
   them; None is a value that is no string. *)

MaxTokens == 3

PyNone == <<"None">>

DigitChars == <<"0", "1", "2", "3", "4", "5", "6", "7", "8", "9">>

IsDigitChar(c) == \E i \in 1..Len(DigitChars) : DigitChars[i] = c

DigitVal(c) == (CHOOSE i \in 1..Len(DigitChars) : DigitChars[i] = c) - 1

\* str(n) of an int
RECURSIVE str(_)
str(n) ==
    IF n < 0 THEN <<"-">> \o str(0 - n)
    ELSE IF n < 10 THEN <<DigitChars[n + 1]>>
    ELSE str(n \div 10) \o <<DigitChars[(n % 10) + 1]>>

\* token.isdigit()
isdigit(token) ==
    token # <<>> /\ \A i \in 1..Len(token) : IsDigitChar(token[i])

RECURSIVE DigitsValue(_)
DigitsValue(token) ==
    IF Len(token) = 1 THEN DigitVal(token[1])
    ELSE DigitsValue(SubSeq(token, 1, Len(token) - 1)) * 10
         + DigitVal(token[Len(token)])

\* int(token): [ok |-> FALSE] stands for ValueError
int(token) ==
    IF isdigit(token) THEN [ok |-> TRUE, val |-> DigitsValue(token)]
    ELSE IF Len(token) > 1 /\ token[1] = "-" /\ isdigit(Tail(token))
    THEN [ok |-> TRUE, val |-> 0 - DigitsValue(Tail(token))]
    ELSE IF Len(token) > 1 /\ token[1] = "+" /\ isdigit(Tail(token))
    THEN [ok |-> TRUE, val |-> DigitsValue(Tail(token))]
    ELSE [ok |-> FALSE, val |-> 0]

\* expression.replace('=', '').split() on the whitespace-separated pieces
RemoveEquals(piece) == SelectSeq(piece, LAMBDA c : c # "=")

RECURSIVE ExpressionTokens(_)
ExpressionTokens(pieces) ==
    IF pieces = <<>> THEN <<>>
    ELSE LET t == RemoveEquals(Head(pieces))
         IN IF t = <<>> THEN ExpressionTokens(Tail(pieces))
            ELSE <<t>> \o ExpressionTokens(Tail(pieces))

(* The captcha of run_captcha_verification and of legacy/mouth_mov.py:
   a in 20..90, b in 0..10, the answer folded into 0..99. *)
captcha_answer(a, op, b) ==
    LET answer == IF op = "+" THEN a + b ELSE a - b
        answer1 == IF answer < 0 THEN 0 - answer ELSE answer
        answer2 == IF answer1 > 99 THEN answer1 % 100 ELSE answer1
    IN str(answer2)

LiveDraws == {<<a, op, b>> : a \in 20..90, op \in {"+", "-"}, b \in 0..10}

(* "Determine expected answer" of verify_uploaded_audio.  expression is the
   caller's text as pieces (<<>> for None or ""); draw is what random gives
   when there is no expression. *)
upload_expected(expression, draw) ==
    LET tokens == ExpressionTokens(expression)
        parsed == Len(tokens) >= 3 /\ int(tokens[1]).ok /\ int(tokens[3]).ok
        a == IF expression # <<>> THEN int(tokens[1]).val ELSE draw[1]
        op == IF expression # <<>> THEN tokens[2] ELSE <<draw[2]>>
        b == IF expression # <<>> THEN int(tokens[3]).val ELSE draw[3]
        answer == IF op = <<"+">> THEN a + b ELSE a - b
    IN IF expression # <<>> /\ ~parsed THEN PyNone
       ELSE str(IF answer < 0 THEN 0 - answer ELSE answer)

UploadDraws == {<<a, op, b>> : a \in 10..99, op \in {"+", "-"}, b \in 1..9}

Expressions ==
    {<<>>,
     << <<"2", "3">>, <<"+">>, <<"4">> >>,
     << <<"2", "3">>, <<"+">>, <<"4">>, <<"=">>, <<"?">> >>,
     << <<"9", "5">>, <<"+">>, <<"9">> >>,
     << <<"3">>, <<"-">>, <<"3", "0">> >>,
     << <<"2", "3">>, <<"x">>, <<"4">> >>,
     << <<"2", "3">>, <<"+">> >>,
     << <<"a", "b", "c">> >>}

InitAnswer ==
    /\ PipelineIdle
    /\ \E expression \in Expressions :
         probe = [kind |-> "answer", phase |-> "input",
                  expression |-> expression, draw |-> <<>>,
                  expected |-> PyNone]

\* run_captcha_verification, "Generate captcha question"
GenerateLive ==
    /\ probe.phase = "input"
    /\ probe.expression = <<>>
    /\ \E d \in LiveDraws :
         probe' = [probe EXCEPT !.phase = "live", !.draw = d,
                                !.expected = captcha_answer(d[1], d[2], d[3])]
    /\ UNCHANGED pvars

\* legacy/mouth_mov.py, "Generate Captcha"
GenerateLegacy ==
    /\ probe.phase = "input"
    /\ probe.expression = <<>>
    /\ \E d \in LiveDraws :
         probe' = [probe EXCEPT !.phase = "legacy", !.draw = d,
                                !.expected = captcha_answer(d[1], d[2], d[3])]
    /\ UNCHANGED pvars

\* verify_uploaded_audio, "Determine expected answer"
UploadExpected ==
    /\ probe.phase = "input"
    /\ \E d \in (IF probe.expression = <<>> THEN UploadDraws ELSE {<<>>}) :
         probe' = [probe EXCEPT !.phase = "upload", !.draw = d,
                                !.expected = upload_expected(probe.expression, d)]
    /\ UNCHANGED pvars

NextAnswer == GenerateLive \/ GenerateLegacy \/ UploadExpected

SpecAnswer == InitAnswer /\ [][NextAnswer]_vars

(* C14 (as stated): every expected answer, of the live step and of the
   uploaded-audio variant, is the decimal string of an integer in 0..99. *)
C14_Original ==
    probe.phase \in {"live", "legacy", "upload"} /\ probe.expected # PyNone =>
        \E n \in 0..99 : probe.expected = str(n)

----------------------------------------------------------------------------
(* The captcha decision: number extraction from the transcript, then the
   verdict of the live step, of legacy/mouth_mov.py and of the
   uploaded-audio variant. *)

Twenty == <<"t", "w", "e", "n", "t", "y">>

Seven == <<"s", "e", "v", "e", "n">>

\* the words a transcript is made of
Vocabulary == {<<"3">>, <<"2", "7">>, Twenty, Seven, <<"h", "e", "l", "l", "o">>}

\* word2number's table, the entries for the vocabulary
IsNumberWord(w) == w = Twenty \/ w = Seven

american_number_system(w) == IF w = Twenty THEN 20 ELSE 7

\* w2n.number_formation
number_formation(number_words) ==
    LET numbers == [i \in 1..Len(number_words) |->
                        american_number_system(number_words[i])]
    IN IF Len(numbers) = 4
       THEN numbers[1] * numbers[2] + numbers[3] + numbers[4]
       ELSE IF Len(numbers) = 3
       THEN numbers[1] * numbers[2] + numbers[3]
       ELSE IF Len(numbers) = 2
       THEN numbers[1] + numbers[2]
       ELSE numbers[1]

(* w2n.word_to_num on the transcript's words: an all-digit sentence is its
   int; otherwise the number words are kept and combined, and a sentence
   without number words raises ValueError ([ok |-> FALSE]). *)
word_to_num(spoken_text) ==
    LET clean_numbers == SelectSeq(spoken_text, IsNumberWord)
    IN IF Len(spoken_text) = 1 /\ isdigit(spoken_text[1])
       THEN [ok |-> TRUE, val |-> DigitsValue(spoken_text[1])]
       ELSE IF clean_numbers = <<>> THEN [ok |-> FALSE, val |-> 0]
       ELSE [ok |-> TRUE, val |-> number_formation(clean_numbers)]

\* `for token in spoken_text.split(): if token.isdigit(): ...; break`
RECURSIVE FirstDigitToken(_)
FirstDigitToken(tokens) ==
    IF tokens = <<>> THEN PyNone
    ELSE IF isdigit(Head(tokens)) THEN Head(tokens)
    ELSE FirstDigitToken(Tail(tokens))

\* the same loop without the break: every digit token overwrites the result
RECURSIVE LastDigitToken(_, _)
LastDigitToken(tokens, recognized_number) ==
    IF tokens = <<>> THEN recognized_number
    ELSE LastDigitToken(Tail(tokens),
             IF isdigit(Head(tokens)) THEN Head(tokens) ELSE recognized_number)

\* mouth_captcha_service.py:192-201 and 288-298
recognized_number(spoken_text) ==
    IF word_to_num(spoken_text).ok THEN str(word_to_num(spoken_text).val)
    ELSE FirstDigitToken(spoken_text)

\* legacy/mouth_mov.py:138-144
legacy_recognized_number(spoken_text) ==
    IF word_to_num(spoken_text).ok THEN str(word_to_num(spoken_text).val)
    ELSE LastDigitToken(spoken_text, PyNone)

(* mar_movement as the number of mouth measurements and their standard
   deviation in thousandths. *)
MarMovements ==
    {[frames |-> 0, std |-> 0]} \cup {[frames |-> 2, std |-> m] : m \in MarValues}

\* `np.std(mar_movement) if mar_movement else 0.0`
avg_mar_change(mar_movement) ==
    IF mar_movement.frames = 0 THEN 0 ELSE mar_movement.std

(* legacy/mouth_mov.py "Decision": np.std of an empty list is nan, and
   nan > 0.01 is False. *)
legacy_mouth_decision(mar_movement, spoken_text, answer) ==
    /\ mar_movement.frames > 0
    /\ mar_movement.std > 10
    /\ legacy_recognized_number(spoken_text) = answer

(* verify_uploaded_audio.  audio_ok is whether soundfile can read the bytes;
   spoken_text is what Vosk hears in them. *)
verify_uploaded_audio(audio_ok, expression, draw, spoken_text) ==
    LET expected == upload_expected(expression, draw)
        recognized == recognized_number(spoken_text)
        success == IF expected # PyNone THEN recognized = expected
                   ELSE recognized # PyNone
        confidence == IF expected # PyNone
                      THEN IF success THEN Scale
                           ELSE IF recognized # PyNone THEN Scale \div 2 ELSE 0
                      ELSE IF success THEN Scale \div 2 ELSE 0
    IN IF ~audio_ok
       THEN [success |-> FALSE, confidence |-> 0, answer |-> PyNone,
             recognized_number |-> PyNone, error |-> TRUE]
       ELSE [success |-> success, confidence |-> confidence,
             answer |-> expected, recognized_number |-> recognized,
             error |-> FALSE]

CaptchaDraws == {<<23, "+", 4>>, <<27, "-", 7>>}

CaptchaProbe(kind, spoken_text, mar_movement, draw, expression, audio_ok) ==
    [kind |-> kind, phase |-> "input", spoken_text |-> spoken_text,
     mar_movement |-> mar_movement, draw |-> draw, expression |-> expression,
     audio_ok |-> audio_ok, success |-> FALSE, confidence |-> 0,
     recognized_number |-> PyNone, answer |-> PyNone]

InitCaptcha ==
    /\ PipelineIdle
    /\ \E spoken_text \in BoundedSeq(Vocabulary, MaxTokens) :
         \/ \E m \in MarMovements, d \in CaptchaDraws :
              probe = CaptchaProbe("camera", spoken_text, m, d, <<>>, TRUE)
         \/ \E e \in Expressions, ok \in BOOLEAN :
              probe = CaptchaProbe("upload", spoken_text,
                                   [frames |-> 0, std |-> 0], <<>>, e, ok)

\* run_captcha_verification with the models loaded and a camera with get_frame
CaptchaLive ==
    /\ probe.kind = "camera"
    /\ probe.phase = "input"
    /\ LET answer == captcha_answer(probe.draw[1], probe.draw[2], probe.draw[3])
           recognized == recognized_number(probe.spoken_text)
           r == run_captcha_verification(TRUE, TRUE,
                    avg_mar_change(probe.mar_movement), recognized, answer)
       IN probe' = [probe EXCEPT !.phase = "live",
                                 !.success = r.success,
                                 !.confidence = r.confidence,
                                 !.recognized_number = recognized,
                                 !.answer = answer]
    /\ UNCHANGED pvars

\* legacy/mouth_mov.py mouth_captcha_verification
CaptchaLegacy ==
    /\ probe.kind = "camera"
    /\ probe.phase = "input"
    /\ LET answer == captcha_answer(probe.draw[1], probe.draw[2], probe.draw[3])
       IN probe' = [probe EXCEPT
              !.phase = "legacy",
              !.success = legacy_mouth_decision(probe.mar_movement,
                                                probe.spoken_text, answer),
              !.recognized_number = legacy_recognized_number(probe.spoken_text),
              !.answer = answer]
    /\ UNCHANGED pvars

(* verify_uploaded_audio with the models loaded.  The random draw is looked
   at only when there is no expression and the audio can be read. *)
CaptchaUpload ==
    /\ probe.kind = "upload"
    /\ probe.phase = "input"
    /\ \E d \in (IF probe.expression = <<>> /\ probe.audio_ok THEN UploadDraws ELSE {<<>>}) :
         LET r == verify_uploaded_audio(probe.audio_ok, probe.expression, d,
                                        probe.spoken_text)
         IN probe' = [probe EXCEPT !.phase = "upload",
                                   !.success = r.success,
                                   !.confidence = r.confidence,
                                   !.recognized_number = r.recognized_number,
                                   !.answer = r.answer]
    /\ UNCHANGED pvars

NextCaptcha == CaptchaLive \/ CaptchaLegacy \/ CaptchaUpload

SpecCaptcha == InitCaptcha /\ [][NextCaptcha]_vars

NumberSpoken == probe.recognized_number # PyNone /\ probe.recognized_number = probe.answer

(* C15: the voice captcha passes exactly when the MAR standard deviation is
   above 0.01 and the spoken number equals the expected answer; the
   confidence is (min(1, std / 0.02) + (1 if matched else 0)) / 2; without a
   recognised number or without face frames it fails. *)
C15_CaptchaDecision ==
    /\ probe.phase \in {"live", "legacy"} =>
         /\ probe.success <=>
              /\ probe.mar_movement.frames > 0
              /\ probe.mar_movement.std > 10
              /\ NumberSpoken
         /\ probe.recognized_number = PyNone => ~probe.success
         /\ probe.mar_movement.frames = 0 => ~probe.success
    /\ probe.phase = "live" =>
         2 * 20 * probe.confidence =
             Min(20 * Scale, avg_mar_change(probe.mar_movement) * Scale)
             + (IF NumberSpoken THEN 20 * Scale ELSE 0)

C15_Witness ==
    /\ probe.phase = "live"
    /\ probe.mar_movement = [frames |-> 2, std |-> 15]
    /\ probe.recognized_number = <<"2", "7">>
    /\ probe.success
    /\ probe.confidence = (7 * Scale) \div 8

\* the digit tokens of a transcript, in order
DigitTokens(spoken_text) == SelectSeq(spoken_text, isdigit)

(* C16 (as stated): the spoken number is word-to-number of the whole
   utterance when that succeeds, else the first purely-digit token, else
   none. *)
C16_Original ==
    probe.phase \in {"live", "legacy", "upload"} /\ probe.audio_ok =>
        probe.recognized_number =
            IF word_to_num(probe.spoken_text).ok
            THEN str(word_to_num(probe.spoken_text).val)
            ELSE IF DigitTokens(probe.spoken_text) # <<>>
            THEN Head(DigitTokens(probe.spoken_text))
            ELSE PyNone

(* C17 (as stated): in the uploaded-audio variant an expression of the caller
   that cannot be parsed gives success = false whatever the audio holds. *)
C17_Original ==
    /\ probe.phase = "upload"
    /\ probe.expression # <<>>
    /\ upload_expected(probe.expression, <<>>) = PyNone
    => ~probe.success

----------------------------------------------------------------------------
(* The depth/pose step on its own, over windows long enough for the vote
   ratios 13/20 and 3/5.  A window is some live frames, some flat (spoof)
   frames and some frames without a face, after an optional None frame. *)

MaxVotes == 20

LiveFrame == [got |-> TRUE, face |-> TRUE, brightness |-> 64, depth_std |-> 60, reproj_err |-> 0]

SpoofFrame == [got |-> TRUE, face |-> TRUE, brightness |-> 64, depth_std |-> 30, reproj_err |-> 0]

NoFaceFrame == [got |-> TRUE, face |-> FALSE, brightness |-> 64, depth_std |-> 0, reproj_err |-> 0]

NoneFrame == [got |-> FALSE, face |-> FALSE, brightness |-> 64, depth_std |-> 0, reproj_err |-> 0]

Repeat(f, n) == [i \in 1..n |-> f]

Window(none, nl, ns, nn) ==
    (IF none THEN <<NoneFrame>> ELSE <<>>)
    \o Repeat(LiveFrame, nl) \o Repeat(SpoofFrame, ns) \o Repeat(NoFaceFrame, nn)

(* legacy/midas_liveness.py run_liveness_check_5s, "Decide after exactly
   CHECK_DURATION seconds".  The votes are the window's; the legacy
   liveness_decision's own smoothing and motion terms are not modelled. *)
legacy_final_live(live_votes) ==
    IF Len(live_votes) = 0 THEN FALSE
    ELSE LiveCount(live_votes) * 10 > 6 * Len(live_votes)

InitMidas ==
    /\ PipelineIdle
    /\ \E none \in BOOLEAN, nl \in 0..MaxVotes, ns \in 0..MaxVotes, nn \in 0..MaxVotes :
         /\ nl + ns + nn <= MaxVotes
         /\ probe = [kind |-> "midas", phase |-> "input",
                     frames |-> Window(none, nl, ns, nn),
                     live_votes |-> <<>>, confidence_scores |-> <<>>,
                     success |-> FALSE, confidence |-> 0]

\* run_liveness_check with the models loaded, get_frame and torch available
MidasProbeService ==
    /\ probe.phase = "input"
    /\ LET r == run_liveness_check(TRUE, TRUE, TRUE, probe.frames,
                                   midas_liveness_duration)
           ds == Decisions(probe.frames)
       IN probe' = [probe EXCEPT
              !.phase = "service",
              !.live_votes = [i \in 1..Len(ds) |-> ds[i].is_live],
              !.confidence_scores = [i \in 1..Len(ds) |-> ds[i].confidence],
              !.success = r.success,
              !.confidence = r.confidence]
    /\ UNCHANGED pvars

\* run_liveness_check_5s, its final decision
MidasProbeLegacy ==
    /\ probe.phase = "input"
    /\ LET ds == Decisions(probe.frames)
           votes == [i \in 1..Len(ds) |-> ds[i].is_live]
       IN probe' = [probe EXCEPT !.phase = "legacy",
                                 !.live_votes = votes,
                                 !.success = legacy_final_live(votes)]
    /\ UNCHANGED pvars

NextMidas == MidasProbeService \/ MidasProbeLegacy

SpecMidas == InitMidas /\ [][NextMidas]_vars

\* the frames of the window that were delivered, in order
Delivered(frames) == SelectSeq(frames, LAMBDA f : f.got)

LiveVotes == Cardinality({i \in 1..Len(probe.frames) : probe.frames[i] = LiveFrame})

TotalVotes == Len(Delivered(probe.frames))

(* C18: the depth/pose step passes exactly when liveVotes / totalVotes is
   strictly above 0.6: 13 of 20 passes, 3 of 5 fails, and zero votes fail
   with confidence 0. *)
C18_VoteRatio ==
    probe.phase \in {"service", "legacy"} =>
        /\ probe.success <=> (TotalVotes > 0 /\ 100 * LiveVotes > 60 * TotalVotes)
        /\ LiveVotes = 13 /\ TotalVotes = 20 => probe.success
        /\ LiveVotes = 3 /\ TotalVotes = 5 => ~probe.success
        /\ TotalVotes = 0 => ~probe.success /\ probe.confidence = 0

C18_Witness ==
    /\ probe.phase = "service"
    /\ LiveVotes = 13
    /\ TotalVotes = 20
    /\ probe.success

(* C19 (as stated): a processed frame without a face contributes the vote
   false and the per-frame confidence 0. *)
C19_Original ==
    probe.phase = "service" =>
        \A i \in 1..Len(probe.live_votes) :
            ~Delivered(probe.frames)[i].face =>
                ~probe.live_votes[i] /\ probe.confidence_scores[i] = 0

----------------------------------------------------------------------------
(* The frame-pull loops step by step, with the clock.  elapsed is
   time.time() - start_time in seconds; it advances on its own (Tick).
   camera_mode "never" is a camera whose get_frame() always returns None,
   "flaky" one that returns a frame or None. *)

MaxElapsed == 9

MaxLatePulls == 2

\* `while time.time() - start_time < duration:` with `if frame is None: continue`
ServiceLoops ==
    {"person_verification", "midas_liveness", "blink_detection", "mouth_captcha"}

\* legacy/blink.py: `while True:` with the duration check at the bottom
LegacyLoops == {"legacy_blink"}

LoopDuration(loop) ==
    IF loop = "person_verification" THEN person_verification_duration
    ELSE IF loop = "midas_liveness" THEN midas_liveness_duration
    ELSE IF loop = "mouth_captcha" THEN mouth_captcha_duration
    ELSE blink_detection_duration

InitLoop ==
    /\ PipelineIdle
    /\ \E loop \in ServiceLoops \cup LegacyLoops, mode \in {"never", "flaky"} :
         probe = [kind |-> "loop", loop |-> loop, camera_mode |-> mode,
                  pc |-> IF loop \in ServiceLoops THEN "test" ELSE "pull",
                  elapsed |-> 0, frame |-> "None", late_pulls |-> 0]

\* the clock
Tick ==
    /\ probe.pc # "done"
    /\ probe.elapsed < MaxElapsed
    /\ probe' = [probe EXCEPT !.elapsed = @ + 1]
    /\ UNCHANGED pvars

\* the loop condition of the services
LoopTest ==
    /\ probe.pc = "test"
    /\ probe' = [probe EXCEPT
           !.pc = IF probe.elapsed < LoopDuration(probe.loop)
                  THEN "pull" ELSE "done"]
    /\ UNCHANGED pvars

\* `frame = camera.get_frame()` and `if frame is None: continue`
LoopPull ==
    /\ probe.pc = "pull"
    /\ probe.late_pulls < MaxLatePulls
    /\ \E frame \in (IF probe.camera_mode = "never" THEN {"None"}
                     ELSE {"None", "frame"}) :
         probe' = [probe EXCEPT
             !.frame = frame,
             !.late_pulls = IF probe.elapsed > LoopDuration(probe.loop)
                            THEN @ + 1 ELSE @,
             !.pc = IF frame # "None" THEN "body"
                    ELSE IF probe.loop \in ServiceLoops THEN "test"
                    ELSE "pull"]
    /\ UNCHANGED pvars

\* the rest of the loop body, for a frame that is not None
LoopBody ==
    /\ probe.pc = "body"
    /\ probe' = [probe EXCEPT
           !.pc = IF probe.loop \in ServiceLoops THEN "test" ELSE "bottom"]
    /\ UNCHANGED pvars

\* legacy/blink.py: `if time.time() - start_time > duration: break`
LoopBottom ==
    /\ probe.pc = "bottom"
    /\ probe' = [probe EXCEPT
           !.pc = IF probe.elapsed > LoopDuration(probe.loop)
                  THEN "done" ELSE "pull"]
    /\ UNCHANGED pvars

NextLoop == Tick \/ LoopTest \/ LoopPull \/ LoopBody \/ LoopBottom

SpecLoop == InitLoop /\ [][NextLoop]_vars

(* C20 (as stated): every executor's frame-pull loop ends once the elapsed
   time has reached the duration, also when the camera never delivers a
   frame: after the one get_frame() call that may be under way when the
   clock passes the duration, no further frame is pulled. *)
C20_Original == probe.late_pulls <= 1

(* C21 (as stated): when the camera delivers no frame during a step, the
   step's loop ends before the step's duration has elapsed. *)
C21_Original ==
    /\ probe.loop \in ServiceLoops
    /\ probe.camera_mode = "never"
    /\ probe.pc = "done"
    => probe.elapsed < LoopDuration(probe.loop)

----------------------------------------------------------------------------
(* LivenessDetectionService.run_individual_step on a service object of its
   own, with the models loaded.  kwargs holds the duration keyword:
   has_duration is whether the caller passed it, duration its value
   (NoneDuration for None). *)

NoneDuration == 0 - 1

Kwargs ==
    {[has_duration |-> FALSE, duration |-> NoneDuration],
     [has_duration |-> TRUE, duration |-> NoneDuration],
     [has_duration |-> TRUE, duration |-> 1]}

\* kwargs.get('duration', default)
kwargs_get_duration(kwargs, default) ==
    IF kwargs.has_duration THEN kwargs.duration ELSE default

\* self.config['<step>_duration']
ConfigDuration(step_name) ==
    IF step_name = "person_verification" THEN person_verification_duration
    ELSE IF step_name = "midas_liveness" THEN midas_liveness_duration
    ELSE IF step_name = "blink_detection" THEN blink_detection_duration
    ELSE mouth_captcha_duration

\* the except block that leaves out the error
IndividualFailure_NoError(e) == StepDict(FALSE, 0, "Step failed", "None")

\* the except block of run_individual_step
IndividualFailure(e) == StepDict(FALSE, 0, "Step failed", e)

(* An executor called with the duration it is handed: with None the loop
   condition `time.time() - start_time < duration` (for the depth/pose step
   already int(duration * 30)) raises TypeError inside the executor's try,
   which returns its failure dict; r is what the executor returns otherwise. *)
ExecutorWithDuration(duration, r) ==
    IF duration = NoneDuration
    THEN StepDict(FALSE, 0, "step failed: exception", "TypeError")
    ELSE r

NoResult == StepDict(FALSE, 0, "", "")

InitStep ==
    /\ PipelineIdle
    /\ \E step_name \in StepNames \cup {"unknown"},
          image_data \in {"none", "valid", "undecodable"},
          kwargs \in Kwargs, device \in {"opens", "fails", "raises"},
          has_get_frame \in BOOLEAN :
         probe = [kind |-> "step", pc |-> "start", step_name |-> step_name,
                  image_data |-> image_data, kwargs |-> kwargs,
                  device |-> device, has_get_frame |-> has_get_frame,
                  cs_camera |-> "None", camera |-> "None", cam_log |-> <<>>,
                  duration |-> 0, called |-> FALSE, result |-> NoResult]

\* get_camera() and `if not camera: raise RuntimeError`
StepStart ==
    /\ probe.kind = "step"
    /\ probe.pc = "start"
    /\ LET g == get_camera(probe.cs_camera, probe.device)
       IN probe' = [probe EXCEPT
              !.cs_camera = g.camera,
              !.camera = g.ret,
              !.cam_log = @ \o g.log,
              !.pc = IF g.ret = "None" THEN "finally" ELSE "dispatch",
              !.result = IF g.ret = "None"
                         THEN IndividualFailure("Camera not available")
                         ELSE @]
    /\ UNCHANGED pvars

\* the branches that raise ValueError before any executor is called
StepRejected ==
    /\ probe.pc = "dispatch"
    /\ \/ probe.step_name = "unknown"
       \/ probe.step_name = "person_verification" /\ probe.image_data # "valid"
    /\ probe' = [probe EXCEPT
           !.pc = "finally",
           !.result = IndividualFailure(
               IF probe.step_name = "unknown" THEN "Unknown step"
               ELSE IF probe.image_data = "none"
               THEN "Reference image required for person verification"
               ELSE "Image decoding failed")]
    /\ UNCHANGED pvars

\* `return self.<service>.<executor>(camera, duration=kwargs.get(...), ...)`
StepExecutor ==
    /\ probe.pc = "dispatch"
    /\ probe.step_name \in StepNames
    /\ probe.step_name = "person_verification" => probe.image_data = "valid"
    /\ LET duration == kwargs_get_duration(probe.kwargs,
                                           ConfigDuration(probe.step_name))
           d == IF duration = NoneDuration THEN 1 ELSE duration
       IN \E r \in
            IF probe.step_name = "person_verification"
            THEN {verify_person(TRUE, probe.has_get_frame, 1, frames) :
                      frames \in BoundedSeq(PersonFrames, MaxFrames)}
            ELSE IF probe.step_name = "midas_liveness"
            THEN {run_liveness_check(TRUE, probe.has_get_frame, TRUE, frames, d) :
                      frames \in BoundedSeq(MidasFrames, MaxFrames)}
            ELSE IF probe.step_name = "blink_detection"
            THEN {detect_blinks(TRUE, probe.has_get_frame, frames) :
                      frames \in BoundedSeq(BlinkFrames, MaxFrames)}
            ELSE {run_captcha_verification(TRUE, probe.has_get_frame, m, n, a) :
                      m \in MarValues, n \in Recognized, a \in Answers} :
            probe' = [probe EXCEPT
                !.pc = "finally",
                !.called = TRUE,
                !.duration = duration,
                !.result = ExecutorWithDuration(duration, r)]
    /\ UNCHANGED pvars

\* finally: release_camera(), its own exceptions swallowed
StepFinally ==
    /\ probe.kind = "step"
    /\ probe.pc = "finally"
    /\ LET r == release_camera(probe.cs_camera)
       IN probe' = [probe EXCEPT !.cs_camera = r.camera,
                                 !.cam_log = @ \o r.log,
                                 !.pc = "returned"]
    /\ UNCHANGED pvars

NextStepRun == StepStart \/ StepRejected \/ StepExecutor \/ StepFinally

SpecStep == InitStep /\ [][NextStepRun]_vars

(* C22: run_individual_step asks for the camera once and releases it exactly
   once, at its exit and not before, closing the device it opened; an
   unknown step name, a missing reference image for person verification or
   an unavailable camera is returned as success = false, confidence = 0.0
   with an error. *)
C22_IndividualStep ==
    /\ probe.pc # "start" => Count(probe.cam_log, "get_camera") = 1
    /\ probe.pc # "returned" => Count(probe.cam_log, "release_camera") = 0
    /\ probe.pc = "returned" =>
         /\ Count(probe.cam_log, "release_camera") = 1
         /\ Count(probe.cam_log, "close") = Count(probe.cam_log, "open")
         /\ probe.cs_camera = "None"
         /\ \/ probe.step_name = "unknown"
            \/ probe.step_name = "person_verification" /\ probe.image_data = "none"
            \/ probe.device # "opens"
            => /\ ~probe.result.success
               /\ probe.result.confidence = 0
               /\ probe.result.error \notin {"None", ""}
               /\ ~probe.called

C22_Witness ==
    /\ probe.pc = "returned"
    /\ probe.step_name = "unknown"
    /\ probe.cam_log = <<"get_camera", "open", "release_camera", "close">>
    /\ probe.result.error = "Unknown step"

(* C28 (as stated): when the caller passes no duration or passes None, the
   executor runs with the step's configured default duration and does not
   fail on the duration. *)
C28_Original ==
    /\ probe.pc = "returned"
    /\ probe.called
    /\ ~probe.kwargs.has_duration \/ probe.kwargs.duration = NoneDuration
    => /\ probe.duration = ConfigDuration(probe.step_name)
       /\ probe.result.error # "TypeError"

----------------------------------------------------------------------------
(* Two runs of run_complete_liveness_detection in one process on the same
   inputs: fixed provider outputs for every step, the random module seeded
   with the same seed before each run, and the wall clock, which moves on. *)

MaxClock == 3

\* the first three draws of the random module after random.seed(seed)
SeededDraw(seed) == IF seed = 1 THEN <<23, "+", 4>> ELSE <<27, "-", 7>>

PersonWindows ==
    {<<[faces |-> 1, sim |-> Scale]>>, <<[faces |-> 1, sim |-> 5 * 288]>>}

MidasWindows == {<<LiveFrame>>, <<SpoofFrame>>}

BlinkWindows ==
    {<<[got |-> TRUE, face |-> TRUE, ear |-> 18, gaze |-> 20],
       [got |-> TRUE, face |-> TRUE, ear |-> 18, gaze |-> 20],
       [got |-> TRUE, face |-> TRUE, ear |-> 30, gaze |-> 20]>>,
     <<[got |-> TRUE, face |-> TRUE, ear |-> 30, gaze |-> 10]>>}

Transcripts == {<< <<"2", "7">> >>, << <<"h", "e", "l", "l", "o">> >>}

\* what the four executors return for the fixed providers and the draw
StepReturns(inp, draw) ==
    [person_verification |-> verify_person(TRUE, TRUE, 1, inp.person),
     midas_liveness |-> run_liveness_check(TRUE, TRUE, TRUE, inp.midas,
                                           midas_liveness_duration),
     blink_detection |-> detect_blinks(TRUE, TRUE, inp.blink),
     mouth_captcha |-> run_captcha_verification(TRUE, TRUE, 20,
                           recognized_number(inp.spoken_text),
                           captcha_answer(draw[1], draw[2], draw[3]))]

\* "Calculate final results"
FinalResults(acc) ==
    LET final_confidence == FinalConfidence(acc.total_confidence, acc.passed_steps)
        is_live == IsLive(acc.passed_steps, final_confidence)
    IN [InitialResults EXCEPT
            !.success = TRUE,
            !.is_live = is_live,
            !.confidence = final_confidence,
            !.steps = acc.step_results,
            !.passed_steps = acc.passed_steps,
            !.message = IF is_live
                        THEN "Liveness detection completed successfully"
                        ELSE "Liveness detection failed"]

\* the try body from the step `name` on, as one computation
RECURSIVE RunFrom(_, _, _, _)
RunFrom(name, acc, reference_image, rs) ==
    IF name = "final" THEN FinalResults(acc)
    ELSE IF name = "person_verification" /\ reference_image = "none"
    THEN RunFrom(NextStep(name),
                 [step_results |-> [acc.step_results EXCEPT ![name] = SkippedEntry],
                  passed_steps |-> acc.passed_steps + 1,
                  total_confidence |-> acc.total_confidence + SkippedEntry.confidence],
                 reference_image, rs)
    ELSE IF name = "person_verification" /\ reference_image = "undecodable"
    THEN RunFrom(OnStepRaised(name),
                 [acc EXCEPT !.step_results[name] =
                                 RaisedEntry("Image decoding failed")],
                 reference_image, rs)
    ELSE IF rs[name].success
    THEN RunFrom(NextStep(name),
                 [step_results |-> [acc.step_results EXCEPT ![name] = Entry(rs[name])],
                  passed_steps |-> acc.passed_steps + 1,
                  total_confidence |-> acc.total_confidence + rs[name].confidence],
                 reference_image, rs)
    ELSE [InitialResults EXCEPT !.error = FailureError(name)]

(* run_complete_liveness_detection as one call: the results dict with its
   'timestamp' (datetime.utcnow() at line 87, here the clock reading). *)
run_complete_liveness_detection(inp, draw, now) ==
    [timestamp |-> now,
     results |->
        IF inp.device # "opens"
        THEN [InitialResults EXCEPT !.error = "Camera not available"]
        ELSE RunFrom("person_verification",
                     [step_results |-> NoSteps, passed_steps |-> 0,
                      total_confidence |-> 0],
                     inp.reference_image, StepReturns(inp, draw))]

InitRepeat ==
    /\ PipelineIdle
    /\ \E reference_image \in {"none", "valid", "undecodable"},
          device \in {"opens", "fails"}, person \in PersonWindows,
          midas \in MidasWindows, blink \in BlinkWindows,
          spoken_text \in Transcripts, seed \in {1, 2} :
         probe = [kind |-> "repeat",
                  inp |-> [reference_image |-> reference_image,
                           device |-> device, person |-> person,
                           midas |-> midas, blink |-> blink,
                           spoken_text |-> spoken_text],
                  seed |-> seed, clock |-> 0, out |-> <<>>]

\* time passing between the calls
Wait ==
    /\ probe.kind = "repeat"
    /\ probe.clock < MaxClock
    /\ probe' = [probe EXCEPT !.clock = @ + 1]
    /\ UNCHANGED pvars

\* random.seed(seed) and one call, which itself takes time
RunPipeline ==
    /\ probe.kind = "repeat"
    /\ Len(probe.out) < 2
    /\ probe' = [probe EXCEPT
           !.out = Append(@, run_complete_liveness_detection(
                                 probe.inp, SeededDraw(probe.seed), probe.clock)),
           !.clock = @ + 1]
    /\ UNCHANGED pvars

NextRepeat == Wait \/ RunPipeline

SpecRepeat == InitRepeat /\ [][NextRepeat]_vars

(* C23 (as stated): two runs on the same inputs, with fixed providers and the
   same captcha seed, return identical results. *)
C23_Original == Len(probe.out) = 2 => probe.out[1] = probe.out[2]

----------------------------------------------------------------------------
(* The depth/pose step over windows with more frames than the vote deque
   holds: duration 1 (deque(maxlen=30)) and up to MaxWindow frames. *)

MaxWindow == 31

(* 'live_votes', 'total_votes' and 'frames_processed' of the dict that
   run_liveness_check returns, and the length of confidence_scores:
   live_votes is a deque(maxlen=int(duration * 30)), confidence_scores and
   frame_count are not bounded. *)
liveness_counts(frames, duration) ==
    LET ds == Decisions(frames)
        live_votes == LastN([i \in 1..Len(ds) |-> ds[i].is_live], duration * 30)
    IN [live_votes |-> LiveCount(live_votes),
        total_votes |-> Len(live_votes),
        frames_processed |-> Len(ds),
        confidence_scores |-> Len(ds)]

InitVotes ==
    /\ PipelineIdle
    /\ \E none \in BOOLEAN, nl \in 0..MaxWindow, ns \in 0..MaxWindow, nn \in 0..MaxWindow :
         /\ nl + ns + nn <= MaxWindow
         /\ probe = [kind |-> "votes", phase |-> "input",
                     frames |-> Window(none, nl, ns, nn), duration |-> 1,
                     counts |-> [live_votes |-> 0, total_votes |-> 0,
                                 frames_processed |-> 0,
                                 confidence_scores |-> 0],
                     success |-> FALSE]

\* run_liveness_check(camera, duration=probe.duration)
VotesProbe ==
    /\ probe.kind = "votes"
    /\ probe.phase = "input"
    /\ probe' = [probe EXCEPT
           !.phase = "service",
           !.counts = liveness_counts(probe.frames, probe.duration),
           !.success = run_liveness_check(TRUE, TRUE, TRUE, probe.frames,
                                          probe.duration).success]
    /\ UNCHANGED pvars

NextVotes == VotesProbe

SpecVotes == InitVotes /\ [][NextVotes]_vars

(* C24 (as stated): at the final decision totalVotes is the number of frames
   processed, and the pass ratio is taken over the same frames as the mean
   confidence, however many frames arrive within the duration. *)
C24_Original ==
    probe.phase = "service" =>
        /\ probe.counts.total_votes = probe.counts.frames_processed
        /\ probe.counts.total_votes = probe.counts.confidence_scores
        /\ probe.success <=> (TotalVotes > 0 /\ 100 * LiveVotes > 60 * TotalVotes)

----------------------------------------------------------------------------
(* run_captcha_verification step by step from stream.start() on: the
   microphone callback thread puts chunks on the queue q while the loop
   pulls frames and takes at most one chunk per frame it obtained.
   has_get_frame is whether the camera object has get_frame(); without it
   the call at line 139 raises AttributeError inside the loop. *)

MaxChunks == 2

InitAudio ==
    /\ PipelineIdle
    /\ \E mode \in {"never", "flaky"}, has_get_frame \in BOOLEAN :
         probe = [kind |-> "audio", pc |-> "test", camera_mode |-> mode,
                  has_get_frame |-> has_get_frame, elapsed |-> 0,
                  stream |-> "started", q |-> 0, delivered |-> 0, fed |-> 0,
                  frame_count |-> 0, raised |-> FALSE, transcript_chunks |-> 0]

\* the clock
AudioTick ==
    /\ probe.kind = "audio"
    /\ probe.pc # "returned"
    /\ probe.elapsed < MaxElapsed
    /\ probe' = [probe EXCEPT !.elapsed = @ + 1]
    /\ UNCHANGED pvars

\* audio_callback: q.put(bytes(indata)), on the stream's thread
AudioCallback ==
    /\ probe.kind = "audio"
    /\ probe.stream = "started"
    /\ probe.pc # "returned"
    /\ probe.elapsed < mouth_captcha_duration
    /\ probe.delivered < MaxChunks
    /\ probe' = [probe EXCEPT !.q = @ + 1, !.delivered = @ + 1]
    /\ UNCHANGED pvars

\* `while time.time() - start_time < duration:`
CaptchaTest ==
    /\ probe.kind = "audio"
    /\ probe.pc = "test"
    /\ probe' = [probe EXCEPT
           !.pc = IF probe.elapsed < mouth_captcha_duration
                  THEN "pull" ELSE "cleanup"]
    /\ UNCHANGED pvars

\* `frame = camera.get_frame()` and `if frame is None: continue`
CaptchaPull ==
    /\ probe.kind = "audio"
    /\ probe.pc = "pull"
    /\ IF ~probe.has_get_frame
       THEN probe' = [probe EXCEPT !.pc = "except", !.raised = TRUE]
       ELSE \E frame \in (IF probe.camera_mode = "never" THEN {"None"}
                          ELSE {"None", "frame"}) :
              probe' = [probe EXCEPT
                  !.pc = IF frame = "None" THEN "test" ELSE "speech",
                  !.frame_count = IF frame = "None" THEN @ ELSE Min(@ + 1, 1)]
    /\ UNCHANGED pvars

\* "Process speech": one q.get_nowait() and rec.AcceptWaveform(data)
CaptchaSpeech ==
    /\ probe.kind = "audio"
    /\ probe.pc = "speech"
    /\ probe' = [probe EXCEPT
           !.pc = "test",
           !.q = IF @ > 0 THEN @ - 1 ELSE @,
           !.fed = IF probe.q > 0 THEN @ + 1 ELSE @]
    /\ UNCHANGED pvars

\* "Cleanup": stream.stop()
CaptchaCleanup ==
    /\ probe.kind = "audio"
    /\ probe.pc = "cleanup"
    /\ probe' = [probe EXCEPT !.pc = "analysis", !.stream = "stopped"]
    /\ UNCHANGED pvars

\* "Analyze results" and the return of the result dict
CaptchaAnalysis ==
    /\ probe.kind = "audio"
    /\ probe.pc = "analysis"
    /\ probe' = [probe EXCEPT !.pc = "returned",
                              !.transcript_chunks = probe.fed]
    /\ UNCHANGED pvars

\* `except Exception as e:` returns the failure dict
CaptchaExcept ==
    /\ probe.kind = "audio"
    /\ probe.pc = "except"
    /\ probe' = [probe EXCEPT !.pc = "returned"]
    /\ UNCHANGED pvars

NextAudio ==
    \/ AudioTick \/ AudioCallback \/ CaptchaTest \/ CaptchaPull
    \/ CaptchaSpeech \/ CaptchaCleanup \/ CaptchaAnalysis \/ CaptchaExcept

SpecAudio == InitAudio /\ [][NextAudio]_vars

(* C25 (as stated): every audio chunk the callback delivered before the
   duration boundary has been fed to the transcriber and is in the transcript
   used for the decision, whatever the number of video frames obtained. *)
C25_Original ==
    probe.pc = "returned" /\ ~probe.raised =>
        probe.transcript_chunks = probe.delivered

(* C30 (as stated): the microphone stream started by run_captcha_verification
   is stopped when the call returns, on every exit path. *)
C30_Original == probe.pc = "returned" => probe.stream = "stopped"

----------------------------------------------------------------------------
(* Two depth/pose checks one after the other in one process.  The service
   creates live_votes inside run_liveness_check; legacy/midas_liveness.py
   creates it once, at import (line 102), and run_liveness_check_5s appends
   to that deque. *)

MaxRunFrames == 2

Votes(frames) ==
    LET ds == Decisions(frames) IN [i \in 1..Len(ds) |-> ds[i].is_live]

InitHistory ==
    /\ PipelineIdle
    /\ \E impl \in {"service", "legacy"} :
         probe = [kind |-> "history", impl |-> impl, run |-> 1,
                  pc |-> "start", live_votes |-> <<>>, frames |-> <<>>,
                  final_live |-> <<>>]

\* entry of the check: the service builds its deque, the legacy code does not
HistoryStart ==
    /\ probe.kind = "history"
    /\ probe.pc = "start"
    /\ probe' = [probe EXCEPT
           !.pc = "loop",
           !.frames = <<>>,
           !.live_votes = IF probe.impl = "service" THEN <<>> ELSE @]
    /\ UNCHANGED pvars

\* one processed frame: live_votes.append(live)
HistoryFrame ==
    /\ probe.kind = "history"
    /\ probe.pc = "loop"
    /\ Len(probe.frames) < MaxRunFrames
    /\ \E f \in {LiveFrame, SpoofFrame} :
         probe' = [probe EXCEPT
             !.frames = Append(@, f),
             !.live_votes = LastN(Append(@, FrameDecision(f).is_live),
                                  midas_liveness_duration * 30)]
    /\ UNCHANGED pvars

\* the final decision of the run
HistoryDecide ==
    /\ probe.kind = "history"
    /\ probe.pc = "loop"
    /\ probe' = [probe EXCEPT
           !.pc = IF probe.run = 2 THEN "done" ELSE "start",
           !.run = 2,
           !.final_live = Append(@,
               IF probe.impl = "service"
               THEN run_liveness_check(TRUE, TRUE, TRUE, probe.frames,
                                       midas_liveness_duration).success
               ELSE legacy_final_live(probe.live_votes))]
    /\ UNCHANGED pvars

NextHistory == HistoryStart \/ HistoryFrame \/ HistoryDecide

SpecHistory == InitHistory /\ [][NextHistory]_vars

(* C26 (as stated): the final decision of a run is computed only from the
   votes collected during that run, in the service and in the legacy check:
   a second run is unaffected by the first. *)
C26_Original ==
    probe.pc \in {"start", "done"} /\ probe.final_live # <<>> =>
        probe.final_live[Len(probe.final_live)]
            = legacy_final_live(Votes(probe.frames))

(* C27 (as stated): whenever the returned result has is_live = true, every
   step executed in that run (person verification included when a reference
   image was given) has passed = true in the returned steps. *)
C27_Original ==
    Returned /\ results.is_live =>
        \A s \in StepNames :
            (s # "person_verification" \/ reference # "none") =>
                results.steps[s].present /\ results.steps[s].passed

----------------------------------------------------------------------------
(* run_complete_liveness_detection with the objects the program itself
   builds: the camera handed to the steps is what CameraService.get_camera
   returns, and every model is loaded. *)

\* get_camera returns self.camera, the object made by cv2.VideoCapture(...)
CaptureObject == "cv2.VideoCapture"

\* get_frame is a method of CameraService; the capture object has read()
camera_has_get_frame(cap) == cap = "CameraService"

\* `import torch` is a statement of _load_models: the name is local to it
TorchBound == FALSE

\* what the four executors return when called with the capture object
ExecutorReturns(inp, draw, cap) ==
    [person_verification |->
         verify_person(TRUE, camera_has_get_frame(cap), 1, inp.person),
     midas_liveness |->
         run_liveness_check(TRUE, camera_has_get_frame(cap), TorchBound,
                            inp.midas, midas_liveness_duration),
     blink_detection |->
         detect_blinks(TRUE, camera_has_get_frame(cap), inp.blink),
     mouth_captcha |->
         run_captcha_verification(TRUE, camera_has_get_frame(cap), 20,
             recognized_number(inp.spoken_text),
             captcha_answer(draw[1], draw[2], draw[3]))]

InitOrchestrator ==
    /\ PipelineIdle
    /\ \E reference_image \in {"none", "valid", "undecodable"},
          device \in {"opens", "fails"}, person \in PersonWindows,
          midas \in MidasWindows, blink \in BlinkWindows,
          spoken_text \in Transcripts, seed \in {1, 2} :
         probe = [kind |-> "orchestrator", pc |-> "start",
                  inp |-> [reference_image |-> reference_image,
                           device |-> device, person |-> person,
                           midas |-> midas, blink |-> blink,
                           spoken_text |-> spoken_text],
                  seed |-> seed, camera |-> "None", opened |-> FALSE,
                  results |-> InitialResults]

\* camera = self.camera_service.get_camera()
OrchestratorGetCamera ==
    /\ probe.kind = "orchestrator"
    /\ probe.pc = "start"
    /\ probe' = [probe EXCEPT
           !.pc = "steps",
           !.opened = probe.inp.device = "opens",
           !.camera = IF probe.inp.device = "opens"
                      THEN CaptureObject ELSE "None"]
    /\ UNCHANGED pvars

\* the rest of the try body up to `return results`, and the finally clause
OrchestratorSteps ==
    /\ probe.kind = "orchestrator"
    /\ probe.pc = "steps"
    /\ probe' = [probe EXCEPT
           !.pc = "returned",
           !.opened = FALSE,
           !.results =
               IF probe.camera = "None"
               THEN [InitialResults EXCEPT !.error = "Camera not available"]
               ELSE RunFrom("person_verification",
                            [step_results |-> NoSteps, passed_steps |-> 0,
                             total_confidence |-> 0],
                            probe.inp.reference_image,
                            ExecutorReturns(probe.inp, SeededDraw(probe.seed),
                                            probe.camera))]
    /\ UNCHANGED pvars

NextOrchestrator == OrchestratorGetCamera \/ OrchestratorSteps

SpecOrchestrator == InitOrchestrator /\ [][NextOrchestrator]_vars

\* the provider outputs meet the pass criteria of every step that is called
ProvidersPass(inp, draw) ==
    /\ inp.device = "opens"
    /\ inp.reference_image # "undecodable"
    /\ \A s \in StepNames :
           (s # "person_verification" \/ inp.reference_image = "valid") =>
               StepReturns(inp, draw)[s].success
    /\ run_complete_liveness_detection(inp, draw, 0).results.is_live

(* C29 (as stated): with a camera that opens and delivers frames, all models
   loaded and provider outputs that pass every step, the run through the
   orchestrator, which hands each step the capture object it acquired,
   returns is_live = true. *)
C29_Original ==
    /\ probe.pc = "returned"
    /\ ProvidersPass(probe.inp, SeededDraw(probe.seed))
    => probe.results.is_live

====
